---- MODULE Spec2Model ----
(***************************************************************************)
(* Model of the git-lfs push command (commands/command_push.go) and of the *)
(* upload context it drives (commands/uploader.go).                        *)
(*                                                                         *)
(* The main goroutine runs pushCommand -> uploadsBetweenRefAndRemote or    *)
(* uploadsWithObjectIDs -> uploadPointers (prepareUpload, checkMissing,    *)
(* the enqueue loop) -> Await.  The workers of the check queue run the     *)
(* Notify callback of newUploadContext; the workers of the upload queue    *)
(* complete the transfers.                                                 *)
(***************************************************************************)
EXTENDS Integers, Sequences, FiniteSets, TLC

\* ---------------------------------------------------------------- bounds
MaxOid == 2      \* content ids are 1..MaxOid
MaxLen == 2      \* longest pointer list one scan returns
MaxRefs == 2     \* most refs of one push

Oids == 1..MaxOid
NoObject == 0 - 1
MaxArgs == MaxRefs + 1

\* An oid names its content, so every pointer to one oid carries one size:
\* the blob of oid o is o bytes long.
PointerSize(oid) == oid

\* lfs.WrappedPointer as the scanner yields it, reduced to the two fields
\* uploader.go reads besides Name
ScannedPointers == {[Oid |-> o, Size |-> PointerSize(o)] : o \in Oids}

\* .git/lfs/objects: the file of an oid is missing, or holds the blob, or is
\* empty (truncated)
ObjectStores ==
  {f \in [Oids -> {NoObject} \cup (0..MaxOid)] :
     \A o \in Oids : f[o] \in {NoObject, 0, PointerSize(o)}}

SeqsUpTo(S, n) == UNION {[1..k -> S] : k \in 0..n}

VARIABLES
  \* command line and flags
  nargs,          \* len(args)
  pushDryRun,     \* --dry-run, copied into uploadContext.DryRun
  pushObjectIDs,  \* --object-id
  \* collaborators' state
  objects,        \* .git/lfs/objects: oid -> size on disk, or NoObject
  \* the main goroutine
  pc,             \* where the main goroutine stands
  refsLeft,       \* refs of uploadsBetweenRefAndRemote not yet scanned
  exitStatus,     \* "running", "returned", "exit1", "exit2", "fatal"
  msg,            \* the last diagnostic printed by the command
  \* uploadContext
  uploadedOids,   \* ctx.uploadedOids
  cwg,            \* ctx.cwg: the WaitGroup's counter
  cq,             \* ctx.cq: every descriptor added, with its callback's position
  tq,             \* ctx.tq: every oid added (q.Add), in order
  tqDone,         \* how many of tq's transfers have finished
  tqErrors,       \* ctx.tq.Errors()
  \* locals of the running uploadPointers / prepareUpload call
  unfiltered,     \* its argument
  entryUploaded,  \* ctx.uploadedOids when it was entered
  uploadables,    \* prepareUpload's uploadables
  missingLocalObjects, \* prepareUpload's missingLocalObjects
  idx,            \* loop index of checkMissing's and uploadPointers' loops
  \* what the running call told its collaborators
  meterAdd,       \* the pointers whose Size was passed to c.meter.Add
  tqSkip,         \* the pointers whose Size was passed to c.tq.Skip
  notices,        \* oids of the "push %s => %s" lines printed
  callChecks,     \* oids passed to c.cq.Add
  callEnqueued,   \* oids passed to q.Add
  reported        \* errors passed to FullError by Await

vars == <<nargs, pushDryRun, pushObjectIDs, objects, pc, refsLeft,
          exitStatus, msg, uploadedOids, cwg, cq, tq, tqDone, tqErrors,
          unfiltered, entryUploaded, uploadables, missingLocalObjects, idx,
          meterAdd, tqSkip, notices, callChecks, callEnqueued, reported>>

flagVars == <<nargs, pushDryRun, pushObjectIDs, objects>>
callVars == <<unfiltered, entryUploaded, uploadables, missingLocalObjects, idx,
              meterAdd, tqSkip, notices, callChecks, callEnqueued>>
queueVars == <<cq, tq, tqDone, tqErrors>>

\* ------------------------------------------------------------- helpers
RECURSIVE SumSeq(_)
SumSeq(s) == IF s = <<>> THEN 0 ELSE Head(s) + SumSeq(Tail(s))

Range(s) == {s[i] : i \in 1..Len(s)}
OidsOf(ps) == {ps[i].Oid : i \in 1..Len(ps)}
SizesOf(ps) == [i \in 1..Len(ps) |-> ps[i].Size]
Count(s, x) == Cardinality({i \in 1..Len(s) : s[i] = x})

ObjectExistsOfSize_AnySize(store, oid, size) == store[oid] # NoObject

\* lfs.ObjectExistsOfSize: the object file exists and has the pointer's size
ObjectExistsOfSize(store, oid, size) == store[oid] = size

\* uploadContext.HasUploaded
HasUploaded(set, oid) == oid \in set

SetUploaded_Forget(set, oid) == set

SetUploaded_Overwrite(set, oid) == {oid}

\* tools.StringSet.Add: one indivisible insertion into the concurrency-safe
\* set
StringSetAdd(set, oid) == set \cup {oid}

\* uploadContext.SetUploaded
SetUploaded(set, oid) == StringSetAdd(set, oid)

NotifyUploaded_Always(set, oid, ok) == SetUploaded(set, oid)

\* the Notify callback, lines 40-44: only an "ok" result marks the oid
NotifyUploaded(set, oid, ok) == IF ok THEN SetUploaded(set, oid) ELSE set

BarrierAdd_OneMore(counter, n) == counter + n + 1

BarrierAdd_Nothing(counter, n) == counter

\* checkMissing, line 126: c.cwg.Add(len(missing))
BarrierAdd(counter, n) == counter + n

BarrierDone_Lost(counter) == counter

\* the Notify callback, line 48: ctx.cwg.Done()
BarrierDone(counter) == counter - 1

\* ------------------------------------------------- prepareUpload, pass 1
AlreadyHandled_NoUniq(uniqOids, uploaded, oid) == HasUploaded(uploaded, oid)

AlreadyHandled_NoUploaded(uniqOids, uploaded, oid) == oid \in uniqOids

\* line 84: already uploaded in this process, or already seen in this call
AlreadyHandled(uniqOids, uploaded, oid) ==
  oid \in uniqOids \/ HasUploaded(uploaded, oid)

Classify_AddIfPresent(store, st, p) ==
  [uniqOids |-> st.uniqOids \cup {p.Oid},
   meterAdd |-> IF ObjectExistsOfSize(store, p.Oid, p.Size)
                THEN Append(st.meterAdd, p) ELSE st.meterAdd,
   uploadables |-> IF ObjectExistsOfSize(store, p.Oid, p.Size)
                   THEN Append(st.uploadables, p) ELSE st.uploadables,
   missingLocalObjects |-> IF ObjectExistsOfSize(store, p.Oid, p.Size)
                           THEN st.missingLocalObjects
                           ELSE Append(st.missingLocalObjects, p),
   missingSize |-> IF ObjectExistsOfSize(store, p.Oid, p.Size)
                   THEN st.missingSize ELSE st.missingSize + p.Size]

\* lines 87-100: the loop body for a pointer that is considered
Classify(store, st, p) ==
  [uniqOids |-> st.uniqOids \cup {p.Oid},
   meterAdd |-> Append(st.meterAdd, p),
   uploadables |-> IF ObjectExistsOfSize(store, p.Oid, p.Size)
                   THEN Append(st.uploadables, p) ELSE st.uploadables,
   missingLocalObjects |-> IF ObjectExistsOfSize(store, p.Oid, p.Size)
                           THEN st.missingLocalObjects
                           ELSE Append(st.missingLocalObjects, p),
   missingSize |-> IF ObjectExistsOfSize(store, p.Oid, p.Size)
                   THEN st.missingSize ELSE st.missingSize + p.Size]

\* lines 70-77: the locals before the loop
EmptyPass == [uniqOids |-> {}, meterAdd |-> <<>>, uploadables |-> <<>>,
              missingLocalObjects |-> <<>>, missingSize |-> 0]

\* lines 81-101: the first loop over unfiltered
RECURSIVE FirstPass(_, _, _, _)
FirstPass(ps, uploaded, store, st) ==
  IF ps = <<>> THEN st
  ELSE IF AlreadyHandled(st.uniqOids, uploaded, Head(ps).Oid)
       THEN FirstPass(Tail(ps), uploaded, store, st)
       ELSE FirstPass(Tail(ps), uploaded, store, Classify(store, st, Head(ps)))

\* ------------------------------------------------- prepareUpload, pass 2
SkipOrKeep_KeepAll(st, uploaded, p) ==
  [uploadables |-> Append(st.uploadables, p), tqSkip |-> st.tqSkip]

SkipOrKeep_Prepend(st, uploaded, p) ==
  IF HasUploaded(uploaded, p.Oid)
  THEN [uploadables |-> st.uploadables, tqSkip |-> Append(st.tqSkip, p)]
  ELSE [uploadables |-> <<p>> \o st.uploadables, tqSkip |-> st.tqSkip]

SkipOrKeep_SkipTwice(st, uploaded, p) ==
  IF HasUploaded(uploaded, p.Oid)
  THEN [uploadables |-> st.uploadables, tqSkip |-> st.tqSkip \o <<p, p>>]
  ELSE [uploadables |-> Append(st.uploadables, p), tqSkip |-> st.tqSkip]

\* lines 109-116: the loop body
SkipOrKeep(st, uploaded, p) ==
  IF HasUploaded(uploaded, p.Oid)
  THEN [uploadables |-> st.uploadables, tqSkip |-> Append(st.tqSkip, p)]
  ELSE [uploadables |-> Append(st.uploadables, p), tqSkip |-> st.tqSkip]

\* lines 108-117: the second loop, over missingLocalObjects
RECURSIVE SecondPass(_, _, _)
SecondPass(ps, uploaded, st) ==
  IF ps = <<>> THEN st
  ELSE SecondPass(Tail(ps), uploaded, SkipOrKeep(st, uploaded, Head(ps)))

\* ------------------------------------------------- uploadPointers, dry run
RECURSIVE DryRunPass_NoCheck(_, _)
DryRunPass_NoCheck(ps, st) ==
  IF ps = <<>> THEN st
  ELSE DryRunPass_NoCheck(Tail(ps),
         [notices |-> Append(st.notices, Head(ps).Oid),
          uploaded |-> SetUploaded(st.uploaded, Head(ps).Oid)])

\* lines 136-143: the dry-run loop
RECURSIVE DryRunPass(_, _)
DryRunPass(ps, st) ==
  IF ps = <<>> THEN st
  ELSE IF HasUploaded(st.uploaded, Head(ps).Oid)
       THEN DryRunPass(Tail(ps), st)
       ELSE DryRunPass(Tail(ps),
              [notices |-> Append(st.notices, Head(ps).Oid),
               uploaded |-> SetUploaded(st.uploaded, Head(ps).Oid)])

\* ---------------------------------------------------------------- Init
\* newUploadContext: an empty set, a zero WaitGroup, two empty queues
Init ==
  /\ nargs \in 0..MaxArgs
  /\ pushDryRun \in BOOLEAN
  /\ pushObjectIDs \in BOOLEAN
  /\ objects \in ObjectStores
  /\ pc = "start"
  /\ refsLeft = 0
  /\ exitStatus = "running"
  /\ msg = "none"
  /\ uploadedOids = {}
  /\ cwg = 0
  /\ cq = <<>>
  /\ tq = <<>>
  /\ tqDone = 0
  /\ tqErrors = <<>>
  /\ unfiltered = <<>>
  /\ entryUploaded = {}
  /\ uploadables = <<>>
  /\ missingLocalObjects = <<>>
  /\ idx = 0
  /\ meterAdd = <<>>
  /\ tqSkip = <<>>
  /\ notices = <<>>
  /\ callChecks = <<>>
  /\ callEnqueued = <<>>
  /\ reported = <<>>

\* ------------------------------------------------------- the main goroutine
ExitProcess_Continue(status, message) ==
  /\ pc' = pc
  /\ exitStatus' = status
  /\ msg' = message

\* os.Exit / Exit / ExitWithError: the process ends with the given status
ExitProcess(status, message) ==
  /\ pc' = "exited"
  /\ exitStatus' = status
  /\ msg' = message

AfterUploadPointers_AwaitFirst(left) == "await"

\* where the caller of uploadPointers goes on when the call has returned:
\* the next ref of uploadsBetweenRefAndRemote's loop, or ctx.Await()
AfterUploadPointers(left) == IF left = 0 THEN "await" ELSE "scan"

\* uploadPointers returns (lines 145, 162): its locals are gone
uploadPointersReturn ==
  /\ pc = "return"
  /\ pc' = AfterUploadPointers(refsLeft)
  /\ unfiltered' = <<>>
  /\ entryUploaded' = {}
  /\ uploadables' = <<>>
  /\ missingLocalObjects' = <<>>
  /\ idx' = 0
  /\ meterAdd' = <<>>
  /\ tqSkip' = <<>>
  /\ notices' = <<>>
  /\ callChecks' = <<>>
  /\ callEnqueued' = <<>>
  /\ UNCHANGED <<flagVars, refsLeft, exitStatus, msg, uploadedOids, cwg,
                 queueVars, reported>>

\* pushCommand, lines 122-153, up to the call of the uploads* function
pushCommand ==
  /\ pc = "start"
  /\ \/ /\ nargs = 0
        /\ ExitProcess("exit1", "specify_remote")
     \/ /\ nargs > 0
        /\ ExitProcess("fatal", "git_version")
     \/ /\ nargs > 0
        /\ ExitProcess("fatal", "invalid_remote")
     \/ /\ nargs > 0
        /\ pushObjectIDs
        /\ nargs < 2
        /\ pc' = "exited"
        /\ exitStatus' = "returned"
        /\ msg' = "usage_object_id"
     \/ /\ nargs > 0
        /\ pushObjectIDs
        /\ nargs >= 2
        /\ pc' = "objectids"
        /\ UNCHANGED <<exitStatus, msg>>
     \/ /\ nargs > 0
        /\ ~pushObjectIDs
        /\ pc' = "refs"
        /\ UNCHANGED <<exitStatus, msg>>
  /\ UNCHANGED <<flagVars, refsLeft, uploadedOids, cwg, queueVars, callVars, reported>>

\* uploadsBetweenRefAndRemote, lines 23-35: open the scanner, resolve the refs
uploadsBetweenRefAndRemote ==
  /\ pc = "refs"
  /\ \/ /\ ExitProcess("fatal", "remote_for_push")
        /\ UNCHANGED refsLeft
     \/ /\ ExitProcess("fatal", "local_refs")
        /\ UNCHANGED refsLeft
     \/ /\ \E pushAll \in BOOLEAN : \E n \in 0..MaxRefs :
             \* refsByNames: every local ref with --all and no names,
             \* else one ref per name
             /\ IF pushAll /\ nargs = 1 THEN TRUE ELSE n = nargs - 1
             /\ refsLeft' = n
             /\ pc' = AfterUploadPointers(n)
        /\ UNCHANGED <<exitStatus, msg>>
  /\ UNCHANGED <<flagVars, uploadedOids, cwg, queueVars, callVars, reported>>

\* uploadPointers, lines 134-148, and prepareUpload up to checkMissing's
\* cwg.Add (line 126), with ps the pointers and left the refs still to scan
uploadPointers(ps, left) ==
  /\ unfiltered' = ps
  /\ entryUploaded' = uploadedOids
  /\ refsLeft' = left
  /\ callChecks' = <<>>
  /\ callEnqueued' = <<>>
  /\ tqSkip' = <<>>
  /\ IF pushDryRun
     THEN LET r == DryRunPass(ps, [notices |-> <<>>, uploaded |-> uploadedOids]) IN
          /\ notices' = r.notices
          /\ uploadedOids' = r.uploaded
          /\ meterAdd' = <<>>
          /\ uploadables' = <<>>
          /\ missingLocalObjects' = <<>>
          /\ idx' = 0
          /\ cwg' = cwg
          /\ pc' = "return"
     ELSE LET r == FirstPass(ps, uploadedOids, objects, EmptyPass) IN
          /\ notices' = <<>>
          /\ uploadedOids' = uploadedOids
          /\ meterAdd' = r.meterAdd
          /\ uploadables' = r.uploadables
          /\ missingLocalObjects' = r.missingLocalObjects
          /\ idx' = 1
          /\ cwg' = BarrierAdd(cwg, Len(r.missingLocalObjects))
          /\ pc' = "submit"
  /\ UNCHANGED <<flagVars, exitStatus, msg, queueVars, reported>>

\* uploadsBetweenRefAndRemote, lines 37-44: scan one ref, upload its pointers
scanRef ==
  /\ pc = "scan"
  /\ refsLeft > 0
  /\ \/ /\ ExitProcess("fatal", "scan_error")
        /\ UNCHANGED <<flagVars, refsLeft, uploadedOids, cwg, queueVars,
                       callVars, reported>>
     \/ \E ps \in SeqsUpTo(ScannedPointers, MaxLen) :
          uploadPointers(ps, refsLeft - 1)

\* uploadsWithObjectIDs, lines 77-81: one pointer of size 0 per object id
uploadsWithObjectIDs ==
  /\ pc = "objectids"
  /\ \E oids \in [1..(nargs - 1) -> Oids] :
       uploadPointers([i \in 1..Len(oids) |-> [Oid |-> oids[i], Size |-> 0]], 0)

\* checkMissing, lines 127-129: one cq.Add per missing pointer
checkMissingAdd ==
  /\ pc = "submit"
  /\ idx <= Len(missingLocalObjects)
  /\ cq' = Append(cq, [oid |-> missingLocalObjects[idx].Oid, st |-> "queued"])
  /\ callChecks' = Append(callChecks, missingLocalObjects[idx].Oid)
  /\ idx' = idx + 1
  /\ UNCHANGED <<flagVars, pc, refsLeft, exitStatus, msg, uploadedOids, cwg,
                 tq, tqDone, tqErrors, unfiltered, entryUploaded, uploadables,
                 missingLocalObjects, meterAdd, tqSkip, notices, callEnqueued,
                 reported>>

WaitReturns_Always(counter) == TRUE

\* cwg.Wait (line 131) returns only at zero
WaitReturns(counter) == counter = 0

\* checkMissing's cwg.Wait, then prepareUpload's second loop and its return
\* into uploadPointers (lines 131, 108-119, 148)
checkMissingWait ==
  /\ pc = "submit"
  /\ idx > Len(missingLocalObjects)
  /\ WaitReturns(cwg)
  /\ LET r == SecondPass(missingLocalObjects, uploadedOids,
                         [uploadables |-> uploadables, tqSkip |-> <<>>]) IN
       /\ uploadables' = r.uploadables
       /\ tqSkip' = r.tqSkip
       /\ idx' = 1
       /\ pc' = IF r.uploadables = <<>> THEN "return" ELSE "upload"
  /\ UNCHANGED <<flagVars, refsLeft, exitStatus, msg, uploadedOids, cwg,
                 queueVars, unfiltered, entryUploaded, missingLocalObjects,
                 meterAdd, notices, callChecks, callEnqueued, reported>>

\* uploadPointers, lines 149-161: one iteration of the enqueue loop
enqueueUpload ==
  /\ pc = "upload"
  /\ idx <= Len(uploadables)
  /\ \/ /\ ExitProcess("fatal", "clean_pointer_error")
        /\ UNCHANGED <<tq, callEnqueued, uploadedOids, idx>>
     \/ /\ ExitProcess("fatal", "resolve_error")
        /\ UNCHANGED <<tq, callEnqueued, uploadedOids, idx>>
     \/ /\ tq' = Append(tq, uploadables[idx].Oid)
        /\ callEnqueued' = Append(callEnqueued, uploadables[idx].Oid)
        /\ uploadedOids' = SetUploaded(uploadedOids, uploadables[idx].Oid)
        /\ idx' = idx + 1
        /\ pc' = IF idx = Len(uploadables) THEN "return" ELSE "upload"
        /\ UNCHANGED <<exitStatus, msg>>
  /\ UNCHANGED <<flagVars, refsLeft, cwg, cq, tqDone, tqErrors, unfiltered,
                 entryUploaded, uploadables, missingLocalObjects, meterAdd,
                 tqSkip, notices, callChecks, reported>>

Drained_NoWait(added, done) == TRUE

\* c.tq.Wait (line 165) returns when every added transfer has finished
Drained(added, done) == done = Len(added)

AwaitStatus_Always2(errs) == "exit2"

\* the status Await ends the process with (lines 171-173)
AwaitStatus(errs) == IF Len(errs) > 0 THEN "exit2" ELSE "returned"

\* uploadContext.Await, lines 164-174
Await ==
  /\ pc = "await"
  /\ Drained(tq, tqDone)
  /\ reported' = tqErrors
  /\ pc' = "exited"
  /\ exitStatus' = AwaitStatus(tqErrors)
  /\ UNCHANGED <<flagVars, refsLeft, msg, uploadedOids, cwg, queueVars, callVars>>

\* --------------------------------------------------- check queue workers
\* the Notify callback, lines 40-44: mark the oid if the server has it
notifyMark ==
  /\ exitStatus = "running"
  /\ \E i \in 1..Len(cq) : \E ok \in BOOLEAN :
       /\ cq[i].st = "queued"
       /\ uploadedOids' = NotifyUploaded(uploadedOids, cq[i].oid, ok)
       /\ cq' = [cq EXCEPT ![i].st = IF ok THEN "marked_ok" ELSE "marked_no"]
  /\ UNCHANGED <<flagVars, pc, refsLeft, exitStatus, msg, cwg, tq, tqDone,
                 tqErrors, callVars, reported>>

\* the Notify callback, line 48: ctx.cwg.Done()
notifyDone ==
  /\ exitStatus = "running"
  /\ \E i \in 1..Len(cq) :
       /\ cq[i].st \in {"marked_ok", "marked_no"}
       /\ cwg' = BarrierDone(cwg)
       /\ cq' = [cq EXCEPT ![i].st = IF cq[i].st = "marked_ok" THEN "done_ok"
                                     ELSE "done_no"]
  /\ UNCHANGED <<flagVars, pc, refsLeft, exitStatus, msg, uploadedOids, tq,
                 tqDone, tqErrors, callVars, reported>>

\* -------------------------------------------------- upload queue workers
\* one transfer of the upload queue finishes, with or without an error
transferFinish ==
  /\ exitStatus = "running"
  /\ tqDone < Len(tq)
  /\ tqDone' = tqDone + 1
  /\ \E ok \in BOOLEAN :
       tqErrors' = IF ok THEN tqErrors ELSE Append(tqErrors, tq[tqDone + 1])
  /\ UNCHANGED <<flagVars, pc, refsLeft, exitStatus, msg, uploadedOids, cwg,
                 cq, tq, callVars, reported>>

Next ==
  \/ pushCommand
  \/ uploadsBetweenRefAndRemote
  \/ scanRef
  \/ uploadsWithObjectIDs
  \/ checkMissingAdd
  \/ checkMissingWait
  \/ enqueueUpload
  \/ uploadPointersReturn
  \/ Await
  \/ notifyMark
  \/ notifyDone
  \/ transferFinish

Spec == Init /\ [][Next]_vars

\* The scheduler keeps running the main goroutine while it can take a step,
\* and the check queue's workers deliver the result of every descriptor
\* added to them.
FairSpec ==
  /\ Spec
  /\ WF_vars(checkMissingAdd)
  /\ WF_vars(checkMissingWait)
  /\ WF_vars(notifyMark)
  /\ WF_vars(notifyDone)

\* =================================================================== claims
\* the running call is a non-dry-run one whose prepareUpload has returned
PrepareReturned == ~pushDryRun /\ pc \in {"upload", "return"}

\* a non-dry-run uploadPointers call is running or has just finished
InCall == ~pushDryRun /\ pc \in {"submit", "upload", "return"}

\* the check queue's entries of the running call
CallCq == SubSeq(cq, Len(cq) - Len(callChecks) + 1, Len(cq))

\* the oids whose check of the running call reported that the remote has them
ReportedPresent ==
  {CallCq[i].oid : i \in {j \in 1..Len(CallCq) : CallCq[j].st \in {"marked_ok", "done_ok"}}}

\* the oids whose check of the running call reported that the remote lacks them
ReportedAbsent ==
  {CallCq[i].oid : i \in {j \in 1..Len(CallCq) : CallCq[j].st \in {"marked_no", "done_no"}}}

LocallyPresent(p) == ObjectExistsOfSize(objects, p.Oid, p.Size)

\* the position of the first pointer of the input with the given oid
FirstPos(oid) ==
  CHOOSE i \in 1..Len(unfiltered) :
    /\ unfiltered[i].Oid = oid
    /\ \A j \in 1..(i - 1) : unfiltered[j].Oid # oid

\* the positions of the input the call considers: first of their oid, and
\* not uploaded when the call started
ConsideredPos ==
  {i \in 1..Len(unfiltered) :
     /\ unfiltered[i].Oid \notin entryUploaded
     /\ \A j \in 1..(i - 1) : unfiltered[j].Oid # unfiltered[i].Oid}

RECURSIVE SumSizesAt(_)
SumSizesAt(I) ==
  IF I = {} THEN 0
  ELSE LET i == CHOOSE k \in I : TRUE IN unfiltered[i].Size + SumSizesAt(I \ {i})

\* the oids enqueued on the upload queue before the running call
EnqueuedBefore == {tq[i] : i \in 1..(Len(tq) - Len(callEnqueued))}

\* ---- C1: the ready list of prepareUpload holds no oid that was in
\* UploadedSet when the call started, and no oid that is locally absent and
\* whose remote check reported it present.
C1_ReadyExcludesHandled ==
  PrepareReturned =>
    \A i \in 1..Len(uploadables) :
      /\ uploadables[i].Oid \notin entryUploaded
      /\ ~(~LocallyPresent(uploadables[i]) /\ uploadables[i].Oid \in ReportedPresent)

C1_Witness ==
  /\ PrepareReturned
  /\ Len(unfiltered) = 2
  /\ unfiltered[1].Oid \in entryUploaded
  /\ ~LocallyPresent(unfiltered[2])
  /\ unfiltered[2].Oid \in ReportedPresent
  /\ uploadables = <<>>

\* ---- C2: within one uploadPointers call no oid is submitted to the check
\* queue more than once, and none is enqueued on the upload queue more than
\* once, also when several pointers of the list share it.
C2_OncePerCall ==
  /\ \A i, j \in 1..Len(callChecks) : i < j => callChecks[i] # callChecks[j]
  /\ \A i, j \in 1..Len(callEnqueued) : i < j => callEnqueued[i] # callEnqueued[j]

C2_Witness ==
  /\ pc = "return"
  /\ Len(unfiltered) = 2
  /\ unfiltered[1].Oid = unfiltered[2].Oid
  /\ callChecks = <<unfiltered[1].Oid>>
  /\ callEnqueued = <<unfiltered[1].Oid>>

\* ---- C3 (as claimed): any two pointers of the ready list stand in the
\* order of their first occurrences in the input.
C3_InputOrderKept ==
  PrepareReturned =>
    \A i, j \in 1..Len(uploadables) :
      i < j => FirstPos(uploadables[i].Oid) < FirstPos(uploadables[j].Oid)

\* ---- C3 (amended): the ready list holds exactly the considered pointers
\* that were not found on the remote, each once; the locally present ones
\* come first, in input order, and the locally absent ones follow, in input
\* order.
C3_TwoGroupsInOrder ==
  PrepareReturned =>
    /\ OidsOf(uploadables) =
         {unfiltered[i].Oid : i \in ConsideredPos}
           \ {o \in OidsOf(missingLocalObjects) : o \in ReportedPresent}
    /\ \A i, j \in 1..Len(uploadables) :
         i < j =>
           /\ uploadables[i].Oid # uploadables[j].Oid
           /\ ~(~LocallyPresent(uploadables[i]) /\ LocallyPresent(uploadables[j]))
           /\ (LocallyPresent(uploadables[i]) = LocallyPresent(uploadables[j])
                 => FirstPos(uploadables[i].Oid) < FirstPos(uploadables[j].Oid))

C3_Witness ==
  /\ PrepareReturned
  /\ Len(unfiltered) = 2
  /\ ~LocallyPresent(unfiltered[1])
  /\ LocallyPresent(unfiltered[2])
  /\ uploadables = <<unfiltered[2], unfiltered[1]>>

\* ---- C4: in every prepareUpload call the meter's add is called exactly
\* once per considered pointer, with its size, and the sizes added sum to
\* the sizes of the ready pointers plus the sizes skipped.
C4_MeterAccounting ==
  PrepareReturned =>
    /\ Len(meterAdd) = Cardinality(ConsideredPos)
    /\ \A i \in ConsideredPos : Count(meterAdd, unfiltered[i]) = 1
    /\ SumSeq(SizesOf(meterAdd)) = SumSizesAt(ConsideredPos)
    /\ SumSeq(SizesOf(meterAdd)) =
         SumSeq(SizesOf(uploadables)) + SumSeq(SizesOf(tqSkip))
    /\ Len(meterAdd) = Len(uploadables) + Len(tqSkip)

C4_Witness ==
  /\ PrepareReturned
  /\ Len(tqSkip) = 1
  /\ Len(uploadables) = 1
  /\ SumSeq(SizesOf(meterAdd)) = 3

\* ---- C5: a call whose list holds only oids already in UploadedSet
\* submits no check, adds nothing to the meter, skips nothing and enqueues
\* nothing.
C5_NoWorkWhenAllUploaded ==
  (pc \in {"submit", "upload", "return"} /\ OidsOf(unfiltered) \subseteq entryUploaded) =>
    /\ callChecks = <<>>
    /\ meterAdd = <<>>
    /\ tqSkip = <<>>
    /\ callEnqueued = <<>>
    /\ uploadables = <<>>

C5_Witness ==
  /\ ~pushDryRun
  /\ pc = "return"
  /\ Len(unfiltered) = 2
  /\ unfiltered[1].Oid # unfiltered[2].Oid
  /\ OidsOf(unfiltered) \subseteq entryUploaded

\* ---- C6: a dry-run uploadPointers call prints one push notice per
\* distinct oid of the list that is not yet in UploadedSet, adds those oids
\* to UploadedSet, and leaves the meter, both queues and the barrier alone;
\* no pointer is classified against the local store or resolved.
C6_DryRunStep ==
  [][(pushDryRun /\ pc # "return" /\ pc' = "return") =>
       /\ \A o \in Oids :
            Count(notices', o) =
              IF o \in OidsOf(unfiltered') \ uploadedOids THEN 1 ELSE 0
       /\ uploadedOids' = uploadedOids \cup OidsOf(unfiltered')
       /\ meterAdd' = <<>>
       /\ tqSkip' = <<>>
       /\ cq' = cq
       /\ tq' = tq
       /\ cwg' = cwg
       /\ callChecks' = <<>>
       /\ callEnqueued' = <<>>
       /\ uploadables' = <<>>
       /\ missingLocalObjects' = <<>>]_vars

C6_Witness ==
  /\ pushDryRun
  /\ pc = "return"
  /\ Len(unfiltered) = 2
  /\ entryUploaded = {}
  /\ Len(notices) = 2
  /\ uploadedOids = OidsOf(unfiltered)

\* ---- C7: Await neither reports nor exits before the upload queue has
\* drained; then it reports every accumulated error, and it ends the process
\* with status 2 exactly when there is one, returning normally otherwise.
C7_AwaitAfterDrain ==
  /\ (exitStatus = "exit2" =>
        tqDone = Len(tq) /\ tqErrors # <<>> /\ reported = tqErrors)
  /\ (exitStatus = "returned" =>
        tqDone = Len(tq) /\ tqErrors = <<>> /\ reported = <<>>)
  /\ (exitStatus \in {"running", "exit1", "fatal"} => reported = <<>>)

C7_Witness ==
  /\ exitStatus = "exit2"
  /\ Len(tq) = 2
  /\ Len(reported) = 1

\* ---- C8: every usage error of the push command is reported and ends the
\* process with status 1 before any check is submitted or upload enqueued.
C8_UsageErrorExits1 ==
  (pc = "exited" /\ exitStatus # "fatal"
     /\ (nargs = 0 \/ (pushObjectIDs /\ nargs = 1))) =>
    /\ msg \in {"specify_remote", "usage_object_id"}
    /\ exitStatus = "exit1"
    /\ cq = <<>>
    /\ tq = <<>>

\* ---- C9: in a non-dry-run call every ready pointer already resolved is
\* on the upload queue and in UploadedSet before the next one is processed,
\* whether or not its transfer has finished; and a later call produces no
\* check, no meter add and no enqueue for an oid enqueued before it, also
\* when that transfer ended in an error.
C9_OptimisticMark ==
  /\ (~pushDryRun /\ pc \in {"upload", "return"}) =>
       /\ Len(callEnqueued) = idx - 1
       /\ \A i \in 1..(idx - 1) :
            /\ callEnqueued[i] = uploadables[i].Oid
            /\ uploadables[i].Oid \in uploadedOids
  /\ InCall =>
       \A o \in EnqueuedBefore :
         /\ o \notin Range(callChecks)
         /\ o \notin OidsOf(meterAdd)
         /\ o \notin Range(callEnqueued)

C9_Witness ==
  /\ ~pushDryRun
  /\ pc = "return"
  /\ unfiltered # <<>>
  /\ unfiltered[1].Oid \in EnqueuedBefore
  /\ unfiltered[1].Oid \in Range(tqErrors)
  /\ Len(callEnqueued) = 1
  /\ tqDone < Len(tq)

\* ---- C10: when prepareUpload runs its second pass the callback of every
\* check it submitted has fired, and UploadedSet holds every oid whose check
\* reported it present, in whatever order the callbacks fired.
C10_SecondPassAfterChecks ==
  PrepareReturned =>
    /\ Len(callChecks) = Len(missingLocalObjects)
    /\ \A i \in 1..Len(cq) : cq[i].st \in {"done_ok", "done_no"}
    /\ ReportedPresent \subseteq uploadedOids
    /\ OidsOf(tqSkip) = ReportedPresent
    /\ cwg = 0

C10_Witness ==
  /\ PrepareReturned
  /\ Len(callChecks) = 2
  /\ CallCq[1].st = "done_no"
  /\ CallCq[2].st = "done_ok"
  /\ Len(tqSkip) = 1

\* ---- C11: if the check queue's workers deliver the result of every
\* submitted descriptor, checkMissing eventually returns; with nothing to
\* check it submits nothing and its wait does not block.
C11_CheckMissingReturns ==
  /\ (pc = "submit") ~> (pc # "submit")
  /\ [](pc = "submit" /\ missingLocalObjects = <<>> =>
          /\ callChecks = <<>>
          /\ cwg = 0
          /\ ENABLED checkMissingWait)

C11_Witness ==
  /\ PrepareReturned
  /\ Len(missingLocalObjects) = 2
  /\ Len(callChecks) = 2

\* the number of checks of the running call whose callback has completed
CallbacksCompleted ==
  Cardinality({i \in 1..Len(CallCq) : CallCq[i].st \in {"done_ok", "done_no"}})

ResolveFailed ==
  exitStatus = "fatal" /\ msg \in {"clean_pointer_error", "resolve_error"}

\* ---- C13: when resolving the ready pointer at position idx fails the
\* process has ended there: exactly the ready pointers before idx are
\* enqueued and in UploadedSet, the failing one and the later ones are
\* neither, and Await has reported nothing.
C13_ResolveFailureStops ==
  ResolveFailed =>
    /\ pc = "exited"
    /\ idx \in 1..Len(uploadables)
    /\ callEnqueued = [j \in 1..(idx - 1) |-> uploadables[j].Oid]
    /\ \A j \in 1..(idx - 1) :
         /\ uploadables[j].Oid \in Range(tq)
         /\ uploadables[j].Oid \in uploadedOids
    /\ \A j \in idx..Len(uploadables) :
         /\ uploadables[j].Oid \notin Range(tq)
         /\ uploadables[j].Oid \notin uploadedOids
    /\ reported = <<>>
    /\ ~ENABLED Await
    /\ ~ENABLED enqueueUpload

\* the second of two ready pointers failed while the first one's transfer
\* was still in flight
C13_Witness ==
  /\ ResolveFailed
  /\ Len(uploadables) = 2
  /\ idx = 2
  /\ Len(tq) = 1
  /\ tqDone = 0

\* ---- C14: UploadedSet only grows: no step of the main goroutine, of a
\* check callback or of a transfer removes an oid from it.
C14_UploadedMonotonic == [][uploadedOids \subseteq uploadedOids']_vars

\* two oids were added by different steps, and one of them stays in the set
\* although its upload failed and Await reported the failure
C14_Witness ==
  /\ Cardinality(uploadedOids) = 2
  /\ \E i \in 1..Len(reported) : reported[i] \in uploadedOids
  /\ \E i \in 1..Len(cq) : cq[i].st = "done_ok"

\* the oids of the considered pointers whose object is not in the local
\* store with the pointer's size
ConsideredAbsent ==
  {unfiltered[i].Oid : i \in {j \in ConsideredPos :
                                objects[unfiltered[j].Oid] # unfiltered[j].Size}}

\* ---- C15: prepareUpload submits a pointer to the check queue exactly when
\* it is the first of its oid in the input, its oid was not in UploadedSet
\* when the call started, and the local store has no object of that oid and
\* size; a considered pointer that is locally present is never checked and
\* is in the ready list.
C15_CheckedIffAbsent ==
  /\ InCall => Range(callChecks) \subseteq ConsideredAbsent
  /\ PrepareReturned =>
       /\ Range(callChecks) = ConsideredAbsent
       /\ Len(callChecks) = Cardinality(ConsideredAbsent)
       /\ \A i \in ConsideredPos :
            objects[unfiltered[i].Oid] = unfiltered[i].Size =>
              /\ unfiltered[i].Oid \notin Range(callChecks)
              /\ unfiltered[i] \in Range(uploadables)

\* one pointer is locally present, another has a local object of a different
\* size and was checked
C15_Witness ==
  /\ PrepareReturned
  /\ Len(unfiltered) = 2
  /\ objects[unfiltered[1].Oid] = unfiltered[1].Size
  /\ objects[unfiltered[2].Oid] \notin {NoObject, unfiltered[2].Size}
  /\ callChecks = <<unfiltered[2].Oid>>

\* how often the upload queue was told to skip the pointer in this call
SkipCalls(p) == Cardinality({i \in 1..Len(tqSkip) : tqSkip[i] = p})

\* ---- C16: after the checks, the upload queue's Skip is called exactly
\* once, with the pointer's size, for every to-check pointer whose oid the
\* checks put in UploadedSet, and that pointer is not in the ready list; Skip
\* is never called for a locally present pointer nor for one the remote
\* reported absent, and both are in the ready list.
C16_SkipExactlyConfirmed ==
  PrepareReturned =>
    /\ \A i \in 1..Len(missingLocalObjects) :
         LET p == missingLocalObjects[i] IN
           IF p.Oid \in ReportedPresent
           THEN SkipCalls(p) = 1 /\ p \notin Range(uploadables)
           ELSE SkipCalls(p) = 0 /\ p \in Range(uploadables)
    /\ \A i \in 1..Len(tqSkip) : tqSkip[i] \in Range(missingLocalObjects)
    /\ \A i \in ConsideredPos :
         LocallyPresent(unfiltered[i]) =>
           SkipCalls(unfiltered[i]) = 0 /\ unfiltered[i] \in Range(uploadables)

\* of two checked pointers one was reported present and skipped, the other
\* reported absent and kept
C16_Witness ==
  /\ PrepareReturned
  /\ Len(missingLocalObjects) = 2
  /\ Len(tqSkip) = 1
  /\ tqSkip[1].Size > 0
  /\ Len(uploadables) = 1
  /\ ReportedAbsent # {}

\* the checks of the running call that are submitted and whose callback has
\* not yet called Done
ChecksInFlight ==
  Cardinality({i \in 1..Len(CallCq) :
                 CallCq[i].st \in {"queued", "marked_ok", "marked_no"}})

\* the missing pointers checkMissing has still to submit
ChecksToSubmit == Len(missingLocalObjects) - Len(callChecks)

\* ---- C17: checkMissing raises the barrier by the whole number of checks
\* before it submits the first one; from then on the barrier is the number
\* of checks, submitted or still to be submitted, whose callback has not
\* called Done; it is never negative, and the wait has returned only when
\* every check is resolved.
C17_BarrierCountsUnresolved ==
  /\ cwg >= 0
  /\ pc = "submit" /\ callChecks = <<>> => cwg = Len(missingLocalObjects)
  /\ pc = "submit" => cwg = ChecksToSubmit + ChecksInFlight
  /\ pc # "submit" =>
       /\ cwg = 0
       /\ \A i \in 1..Len(cq) : cq[i].st \in {"done_ok", "done_no"}

\* the first check's callback is done before the second check is submitted:
\* the barrier is still positive and the wait cannot return
C17_Witness ==
  /\ pc = "submit"
  /\ Len(missingLocalObjects) = 2
  /\ Len(callChecks) = 1
  /\ CallCq[1].st = "done_no"
  /\ cwg = 1
  /\ ~ENABLED checkMissingWait

\* the oids submitted to the check queue before the running call
CheckedBefore == {cq[i].oid : i \in 1..(Len(cq) - Len(callChecks))}

\* ---- C18: over all uploadPointers calls of one process no oid is enqueued
\* on the upload queue twice and none is submitted to the check queue
\* twice: when a call that is not a dry run has returned, every oid of its
\* input is in UploadedSet.
C18_OncePerProcess ==
  /\ \A i, j \in 1..Len(tq) : tq[i] = tq[j] => i = j
  /\ \A i, j \in 1..Len(cq) : cq[i].oid = cq[j].oid => i = j
  /\ ~pushDryRun /\ pc = "return" => OidsOf(unfiltered) \subseteq uploadedOids

\* a later call's input repeats an oid an earlier call enqueued and an oid
\* an earlier call checked, and the call has returned without handling
\* either again
C18_Witness ==
  /\ ~pushDryRun
  /\ pc = "return"
  /\ \E i \in 1..Len(unfiltered) : unfiltered[i].Oid \in EnqueuedBefore
  /\ \E i \in 1..Len(unfiltered) : unfiltered[i].Oid \in CheckedBefore
  /\ callEnqueued = <<>>
  /\ callChecks = <<>>

\* the oids some check callback of the process reported present
OkReported ==
  {cq[i].oid : i \in {j \in 1..Len(cq) : cq[j].st \in {"marked_ok", "done_ok"}}}

\* ---- C19: every oid in UploadedSet was put there by exactly one of: a
\* check callback reporting that the remote has it, its enqueue on the
\* upload queue, or a dry-run notice. An oid that was only scanned, only
\* found locally present or only reported absent is not in the set.
C19_ThreeWaysIn ==
  /\ [](~pushDryRun =>
          /\ uploadedOids = OkReported \cup Range(tq)
          /\ OkReported \cap Range(tq) = {}
          /\ notices = <<>>)
  /\ [](pushDryRun => cq = <<>> /\ tq = <<>>)
  /\ [][pushDryRun =>
          \A o \in uploadedOids' \ uploadedOids : Count(notices', o) = 1]_vars

\* one oid is in the set by a callback, and another, which its check
\* reported absent, by its enqueue
C19_Witness ==
  /\ ~pushDryRun
  /\ OkReported # {}
  /\ \E i \in 1..Len(cq) : cq[i].st = "done_no" /\ cq[i].oid \in Range(tq)
  /\ Cardinality(uploadedOids) = 2

\* ---- C20: Await runs at most once and only when the uploadPointers call
\* of every ref, or of the object-id list, has returned: from the moment the
\* drain wait begins nothing is enqueued on the upload queue and the only
\* step left to the main goroutine is the end of the process. When scanning
\* a later ref fails the process ends without Await having drained or
\* reported the uploads of the earlier refs.
C20_AwaitOnceAtEnd ==
  /\ [](pc = "await" =>
          /\ refsLeft = 0
          /\ unfiltered = <<>>
          /\ callEnqueued = <<>>)
  /\ [][(pc = "await" \/ pc = "exited") =>
          (tq' = tq /\ pc' \in {pc, "exited"})]_vars
  /\ [][pc = "exited" => pc' = "exited" /\ reported' = reported]_vars
  /\ [](msg = "scan_error" =>
          /\ exitStatus = "fatal"
          /\ pc = "exited"
          /\ reported = <<>>
          /\ ~ENABLED Await)

\* the scan of the second ref failed while an upload enqueued for the first
\* ref was still in flight
C20_Witness ==
  /\ msg = "scan_error"
  /\ Len(tq) > 0
  /\ tqDone < Len(tq)
  /\ refsLeft > 0

====
